---- MODULE Spec2Model ----
(***************************************************************************)
(* AllureFailingHookReporter (src/test/support/AllureFailingHookReporter.ts)*)
(* as a state machine: one reporter instance in one worker process.  The   *)
(* runner delivers lifecycle callbacks, runtime messages, stream writes,   *)
(* driver command notifications and 'exit' notifications in any order; an  *)
(* async method that reaches its `await` leaves a continuation in the      *)
(* microtask queue, and other callbacks of the same tick may run before it. *)
(***************************************************************************)
EXTENDS Integers, Sequences, FiniteSets, TLC

VARIABLES
  hasRealTestStarted, inBeforeAll, inAfterAll, hookSuiteTitle,
  activeSuites, activeHooks, activeTests,
  bufferedEvents, globalSetupEvents,
  hookConsoleOutput, hookErrorOutput,
  allureStdoutWrapper, allureStderrWrapper,
  hookLogsPrepended, isFlushing, exitHandlerRan, lastGlobalError,
  globalFixtureReplayed,
  stdoutWrite, stderrWrite, \* process.stdout.write, process.stderr.write
  now,            \* Date.now()
  nextId,         \* number of runtime events produced so far by the program under test
  microtasks,     \* continuations of async methods suspended at an await, FIFO
  resultFiles,    \* '<uuid>-result.json' files written by the exit fallback
  attachmentFiles,\* attachment files written by the exit fallback
  emitted,        \* messages the reporter emitted in the call the last step belongs to
  forwarded,      \* chunks handed to the downstream writers in the last step
  fixtureReplays, \* per event id: how often a fixture replay re-emitted it
  syntheticResults,\* synthetic per-hook results completed by onHookEnd
  stdoutBlocks,   \* bracketed blocks of setup-hook text handed to the stdout downstream
  last,           \* the callback that made the last step
  steps,          \* callbacks delivered so far
  constructed,    \* the reporter exists
  sharedBuffer,   \* globalThis.__WDIO_GLOBAL_SETUP_EVENTS__ (rootSetup.ts)
  wdioLogLevel,   \* process.env.WDIO_LOG_LEVEL
  loggers,        \* loglevel.getLoggers(): the level of every logger that exists
  originalLogLevel, originalLoggerLevels,  \* the closure variables of retryLogger
  currentTest,    \* the test whose attempts retryLogger's afterEach sees
  baseline        \* log configuration before the current test's first failed attempt

reporter == << hasRealTestStarted, inBeforeAll, inAfterAll, hookSuiteTitle,
           activeSuites, activeHooks, activeTests,
           bufferedEvents, globalSetupEvents,
           hookConsoleOutput, hookErrorOutput,
           allureStdoutWrapper, allureStderrWrapper,
           hookLogsPrepended, isFlushing, exitHandlerRan, lastGlobalError,
           globalFixtureReplayed, stdoutWrite, stderrWrite, now, nextId, microtasks,
           resultFiles, attachmentFiles, emitted, forwarded,
           fixtureReplays, syntheticResults, stdoutBlocks, last, steps >>

\* what no callback of the constructed reporter touches: the shared pre-reporter
\* buffer and the log configuration that retryLogger manages
outside == << constructed, sharedBuffer, wdioLogLevel, loggers,
             originalLogLevel, originalLoggerLevels, currentTest, baseline >>

vars == << reporter, outside >>

\* ------------------------------------------------------------------ bounds
MaxEvents == 2     \* runtime events / screenshots produced in one run
MaxText == 2       \* chunks held in the two console accumulators together
MaxTime == 1       \* largest value of the clock
MaxPending == 2    \* continuations waiting in the microtask queue
MaxCount == 2      \* the history counters saturate here
MaxSteps == 5      \* callbacks delivered in one run
MaxList == 3       \* entries left in the shared buffer before the reporter exists
MaxStamp == 2      \* largest capture time of such an entry
MaxRetries == 2    \* largest number of retries a test is given

\* ------------------------------------------------------------- environment
Suites == {"s1", "s2"}
Tests == {"t1"}

\* A hook title `"<kind>" hook <rel> <scope>`, kept in its parts.
Hooks ==
  { [id |-> 1, kind |-> "before all",  rel |-> "in",  scope |-> "{root}"],
    [id |-> 2, kind |-> "before all",  rel |-> "for", scope |-> "Suite A"],
    [id |-> 3, kind |-> "after all",   rel |-> "in",  scope |-> "Suite A"] }

\* a hook that is neither before-all nor after-all
OtherHooks ==
  { [id |-> 4, kind |-> "before each", rel |-> "for", scope |-> "Suite A"] }

NoError == [kind |-> "none", message |-> "", stack |-> ""]
Errors ==
  { [kind |-> "object", message |-> "Boom from beforeAll", stack |-> "at hook"] }

\* Console chunks, one line each: ordinary text, white space, an error header,
\* a diagnostic marker.
Chunks == {"log", " ", "Error: boom", "[DEBUG] x"}

\* the chunks and message types the runner produces in the lifecycle specification
RunChunks == {"log", " "}
RunTypes == {"step_start", "attachment_content"}

ExtTypes == {"step_start", "step_stop", "attachment_content", "metadata"}

\* ---------------------------------------------------------------- messages
NoData ==
  [name |-> <<>>, start |-> 0, stop |-> 0, duration |-> 0, status |-> "",
   content |-> <<>>, contentType |-> "", labels |-> <<>>, message |-> "", trace |-> ""]

Msg(type, id, data) == [type |-> type, id |-> id, data |-> data]

\* A runtime message produced by the program under test (allure step(), attachments).
ExtMsg(type, id, t) ==
  Msg(type, id,
      [NoData EXCEPT !.name = IF type \in {"step_start", "attachment_content"} THEN <<"ev">> ELSE <<>>,
                     !.start = IF type = "step_start" THEN t ELSE 0,
                     !.stop = IF type = "step_stop" THEN t ELSE 0,
                     !.status = IF type = "step_stop" THEN "passed" ELSE "",
                     !.content = IF type = "attachment_content" THEN <<"bytes">> ELSE <<>>,
                     !.contentType = IF type = "attachment_content" THEN "image/png" ELSE ""])

BufferedEvent(m, t) == [message |-> m, at |-> t]

Messages(buffer) == [i \in 1..Len(buffer) |-> buffer[i].message]

\* ------------------------------------------------------------ pure helpers
Min2(a, b) == IF a < b THEN a ELSE b
Max2(a, b) == IF a > b THEN a ELSE b

RECURSIVE MinAt(_)
MinAt(events) ==
  IF Len(events) = 1 THEN events[1].at
  ELSE Min2(events[1].at, MinAt(Tail(events)))

RECURSIVE MaxAt(_)
MaxAt(events) ==
  IF events = <<>> THEN 0
  ELSE Max2(events[1].at, MaxAt(Tail(events)))

getBufferedMinMaxTimesMutant(events, t) ==
  IF Len(events) = 0 THEN [start |-> t, stop |-> t]
  ELSE [start |-> events[1].at, stop |-> events[Len(events)].at]

getBufferedMinMaxTimes(events, t) ==
  IF Len(events) = 0 THEN [start |-> t, stop |-> t]
  ELSE LET min == MinAt(events)
           max == MaxAt(events)
       IN [start |-> min, stop |-> IF max = 0 THEN min ELSE max]

\* s.trim() is non-empty: some chunk is not white space
NonBlank(text) == \E i \in 1..Len(text) : text[i] # " "

getMessageAndTraceFromErrorLocal(err) ==
  IF err.kind = "object" THEN [message |-> err.message, trace |-> err.stack]
  ELSE IF err.kind = "string" THEN [message |-> err.message, trace |-> err.message]
  ELSE [message |-> "undefined", trace |-> ""]

guessExt(contentType) ==
  IF contentType = "image/png" THEN ".png"
  ELSE IF contentType = "text/plain" THEN ".txt"
  ELSE ""

NoDetails == [message |-> "", trace |-> ""]

\* lastGlobalError = null
NoGlobalError == [message |-> "null", trace |-> "null"]

\* every chunk is one line; the chunk "Error: boom" is the only error header
RECURSIVE deriveStatusDetailsFromConsole(_)
deriveStatusDetailsFromConsole(consoleOut) ==
  IF ~NonBlank(consoleOut) THEN NoDetails
  ELSE IF Head(consoleOut) = "Error: boom"
       THEN [message |-> "Error: boom", trace |-> "Error: boom"]
       ELSE deriveStatusDetailsFromConsole(Tail(consoleOut))

\* the scope that onHookStart reads out of a hook title
SuiteTitleOf(title) ==
  IF title.rel = "for" THEN title.scope
  ELSE IF title.rel = "in"
       THEN (IF title.scope = "{root}" THEN "(root)" ELSE title.scope)
       ELSE "(root)"

Bump(n) == IF n < MaxCount THEN n + 1 ELSE n

\* --------------------------------------------------------- the classifier
CtxOpenHookMutant(suites, hooks, tests, started, inBA, inAA, t) ==
  [idle |-> suites = {} /\ tests = {} /\ ~started,
   inHook |-> inBA \/ inAA,
   t |-> t]

CtxStartedMutant(suites, hooks, tests, started, inBA, inAA, t) ==
  [idle |-> suites = {} /\ hooks = {} /\ tests = {},
   inHook |-> inBA \/ inAA,
   t |-> t]

\* What the listener on 'allure:runtimeMessage' reads of the reporter.
Ctx(suites, hooks, tests, started, inBA, inAA, t) ==
  [idle |-> suites = {} /\ hooks = {} /\ tests = {} /\ ~started,
   inHook |-> inBA \/ inAA,
   t |-> t]

Bufs(g, h) == [g |-> g, h |-> h]

ListenerMutant(bufs, m, ctx, flushing) ==
  IF flushing THEN bufs
  ELSE IF ctx.idle \/ ctx.inHook THEN [bufs EXCEPT !.g = Append(@, BufferedEvent(m, ctx.t))]
  ELSE bufs

\* process.on('allure:runtimeMessage'): bufs are the two buffers before the message
Listener(bufs, m, ctx, flushing) ==
  IF flushing THEN bufs
  ELSE IF ctx.idle THEN [bufs EXCEPT !.g = Append(@, BufferedEvent(m, ctx.t))]
  ELSE IF ctx.inHook THEN [bufs EXCEPT !.h = Append(@, BufferedEvent(m, ctx.t))]
  ELSE bufs

\* emitRuntimeMessage for each of msgs in turn; process.emit runs the listener at once
RECURSIVE emitRuntimeMessage(_, _, _, _)
emitRuntimeMessage(bufs, msgs, ctx, flushing) ==
  IF msgs = <<>> THEN bufs
  ELSE emitRuntimeMessage(Listener(bufs, Head(msgs), ctx, flushing), Tail(msgs), ctx, flushing)

flushBufferedEventsMutant(buffer) ==
  [i \in 1..Len(buffer) |-> buffer[Len(buffer) + 1 - i].message]

\* flushBufferedEvents: the messages it emits, in order
flushBufferedEvents(buffer) == Messages(buffer)

AfterFlushMutant(bufs, buffer, ctx) ==
  emitRuntimeMessage(bufs, flushBufferedEvents(buffer), ctx, FALSE)

\* the buffers after flushBufferedEvents(buffer): isFlushing is set for the whole pass
AfterFlush(bufs, buffer, ctx) ==
  emitRuntimeMessage(bufs, flushBufferedEvents(buffer), ctx, TRUE)

\* ------------------------------------------------------- stream wrappers
Null == "null"
ReporterStdout == "reporter stdout wrapper"
ReporterStderr == "reporter stderr wrapper"

\* the process before the constructor has wrapped the streams
Unwrapped ==
  [out |-> "previous stdout writer", err |-> "previous stderr writer",
   savedOut |-> Null, savedErr |-> Null]

wrapStdoutAndStderrMutant(w) ==
  [out |-> ReporterStdout, err |-> ReporterStderr,
   savedOut |-> w.out, savedErr |-> w.err]

wrapStdoutAndStderr(w) ==
  IF w.savedOut # Null \/ w.savedErr # Null THEN w
  ELSE [out |-> ReporterStdout, err |-> ReporterStderr,
        savedOut |-> w.out, savedErr |-> w.err]

Streams ==
  [out |-> stdoutWrite, err |-> stderrWrite,
   savedOut |-> allureStdoutWrapper, savedErr |-> allureStderrWrapper]

Fwd(stream, kind, text) == [stream |-> stream, kind |-> kind, text |-> text]

\* ------------------------------------------------------------ constructor
\* Entries that mochaGlobalSetup left in the shared buffer before the reporter existed.
PreBuffered ==
  { <<>> } \cup { << BufferedEvent(ExtMsg(ty, 1, 1), 1) >> : ty \in {"step_start", "attachment_content"} }

HarvestMutant(preBuffered) == <<>>

\* the constructor's harvest: the entries it moves into globalSetupEvents.  Every
\* entry mochaGlobalSetup pushes has a numeric `at` and a message, so none is skipped.
Harvest(preBuffered) ==
  [i \in 1..Len(preBuffered) |-> [message |-> preBuffered[i].message, at |-> preBuffered[i].at]]

\* the fields of a reporter whose buffer of global events is g and whose streams are w
ReporterFields(g, t, w) ==
  /\ hasRealTestStarted = FALSE
  /\ inBeforeAll = FALSE
  /\ inAfterAll = FALSE
  /\ hookSuiteTitle = ""
  /\ activeSuites = {}
  /\ activeHooks = {}
  /\ activeTests = {}
  /\ bufferedEvents = <<>>
  /\ globalSetupEvents = g
  /\ hookConsoleOutput = <<>>
  /\ hookErrorOutput = <<>>
  /\ allureStdoutWrapper = w.savedOut
  /\ allureStderrWrapper = w.savedErr
  /\ stdoutWrite = w.out
  /\ stderrWrite = w.err
  /\ hookLogsPrepended = FALSE
  /\ isFlushing = FALSE
  /\ exitHandlerRan = FALSE
  /\ lastGlobalError = NoGlobalError
  /\ globalFixtureReplayed = FALSE
  /\ now = t
  /\ nextId = Len(g)
  /\ microtasks = <<>>
  /\ resultFiles = <<>>
  /\ attachmentFiles = <<>>
  /\ emitted = <<>>
  /\ forwarded = <<>>
  /\ fixtureReplays = [i \in 1..MaxEvents |-> 0]
  /\ syntheticResults = 0
  /\ stdoutBlocks = 0

\* the reporter after its constructor, run at time t with preBuffered in the shared buffer
Constructed(preBuffered, t) ==
  /\ ReporterFields(Harvest(preBuffered), t, wrapStdoutAndStderr(Unwrapped))
  /\ last = [op |-> "constructor"]
  /\ constructed = TRUE
  /\ sharedBuffer = <<>>

\* ------------------------------------------------------------ retryLogger
\* the loggers of the process; "lazy" is created by the first getLogger('lazy')
LoggerNames == {"webdriver", "devtools", "lazy"}

Absent == "absent"
Undefined == "undefined"

NoTest == [retries |-> 0, currentRetry |-> 0, state |-> "none", failed |-> FALSE]

\* no test has failed: retryLogger has saved nothing
RetryIdle ==
  /\ wdioLogLevel = "info"
  /\ loggers = [n \in LoggerNames |-> IF n = "lazy" THEN Absent ELSE "info"]
  /\ originalLogLevel = Undefined
  /\ originalLoggerLevels = [n \in LoggerNames |-> Absent]
  /\ currentTest = NoTest
  /\ baseline = [env |-> "info", loggers |-> loggers]

Init ==
  /\ \E preBuffered \in PreBuffered : Constructed(preBuffered, 1)
  /\ steps = 0
  /\ RetryIdle

\* one more callback is delivered to the reporter
Delivered ==
  /\ constructed
  /\ steps < MaxSteps
  /\ steps' = steps + 1
  /\ UNCHANGED outside

\* the process has not begun to exit
Running == ~exitHandlerRan

\* ------------------------------------------------- runtime message channel
\* A message of the program under test arrives on 'allure:runtimeMessage'.
RuntimeMessage(type, t) ==
  /\ Running
  /\ Delivered
  /\ nextId < MaxEvents
  /\ LET m == ExtMsg(type, nextId + 1, t)
         ctx == Ctx(activeSuites, activeHooks, activeTests, hasRealTestStarted,
                    inBeforeAll, inAfterAll, t)
         bufs == Listener(Bufs(globalSetupEvents, bufferedEvents), m, ctx, isFlushing)
     IN /\ globalSetupEvents' = bufs.g
        /\ bufferedEvents' = bufs.h
        /\ last' = [op |-> "runtimeMessage", message |-> m]
  /\ now' = t
  /\ nextId' = nextId + 1
  /\ emitted' = <<>>
  /\ forwarded' = <<>>
  /\ UNCHANGED << hasRealTestStarted, inBeforeAll, inAfterAll, hookSuiteTitle,
                  activeSuites, activeHooks, activeTests,
                  hookConsoleOutput, hookErrorOutput,
                  allureStdoutWrapper, allureStderrWrapper, stdoutWrite, stderrWrite,
                  hookLogsPrepended, isFlushing, exitHandlerRan, lastGlobalError,
                  globalFixtureReplayed, microtasks, resultFiles, attachmentFiles,
                  fixtureReplays, syntheticResults, stdoutBlocks >>

\* ------------------------------------------------------ screenshot bridge
\* command.result: a string, {value: string}, an object without a string value,
\* or nothing
Results ==
  { [shape |-> "string", value |-> "b64"],
    [shape |-> "string", value |-> ""],
    [shape |-> "wrapped", value |-> "b64"],
    [shape |-> "object", value |-> "b64"],
    [shape |-> "undefined", value |-> ""] }

Base64OfMutant(result) == result.value

\* the base64 text read out of the result; "" stands for undefined as well
Base64Of(result) ==
  IF result.shape \in {"string", "wrapped"} THEN result.value ELSE ""

ScreenshotMsgMutant(id, base64) ==
  Msg("metadata", id, [NoData EXCEPT !.name = <<"Screenshot">>])

ScreenshotMsg(id, base64) ==
  Msg("attachment_content", id,
      [NoData EXCEPT !.name = <<"Screenshot">>, !.content = <<base64>>,
                     !.contentType = "image/png"])

onAfterCommand(command, result, t) ==
  /\ Running
  /\ Delivered
  /\ nextId < MaxEvents
  /\ LET nothingActive == activeSuites = {} /\ activeHooks = {} /\ activeTests = {}
         inGlobalFixture == nothingActive /\ ~hasRealTestStarted
         acts == /\ (inBeforeAll \/ inAfterAll \/ inGlobalFixture)
                 /\ command = "takeScreenshot"
                 /\ Base64Of(result) # ""
         ev == BufferedEvent(ScreenshotMsg(nextId + 1, Base64Of(result)), t)
     IN /\ globalSetupEvents' =
             IF acts /\ inGlobalFixture THEN Append(globalSetupEvents, ev)
             ELSE globalSetupEvents
        /\ bufferedEvents' =
             IF acts /\ ~inGlobalFixture THEN Append(bufferedEvents, ev)
             ELSE bufferedEvents
        /\ nextId' = IF acts THEN nextId + 1 ELSE nextId
        /\ now' = IF acts THEN t ELSE now
        /\ last' = [op |-> "onAfterCommand", acted |-> acts,
                    command |-> command, result |-> result]
  /\ emitted' = <<>>
  /\ forwarded' = <<>>
  /\ UNCHANGED << hasRealTestStarted, inBeforeAll, inAfterAll, hookSuiteTitle,
                  activeSuites, activeHooks, activeTests,
                  hookConsoleOutput, hookErrorOutput,
                  allureStdoutWrapper, allureStderrWrapper, stdoutWrite, stderrWrite,
                  hookLogsPrepended, isFlushing, exitHandlerRan, lastGlobalError,
                  globalFixtureReplayed, microtasks, resultFiles, attachmentFiles,
                  fixtureReplays, syntheticResults, stdoutBlocks >>

\* --------------------------------------------------------- stream writes
CapturingMutant == inBeforeAll \/ inAfterAll

\* the capture condition of both wrappers
Capturing == inBeforeAll \/ inAfterAll \/ ~hasRealTestStarted

\* process.stdout.write(chunk), which is the reporter's wrapper
StdoutWrite(chunk) ==
  /\ Running
  /\ Delivered
  /\ stdoutWrite = ReporterStdout
  /\ LET capture == Capturing
         text == IF capture THEN Append(hookConsoleOutput, chunk) ELSE hookConsoleOutput
         prepend == /\ hasRealTestStarted
                    /\ ~hookLogsPrepended
                    /\ NonBlank(text)
                    /\ chunk # "[DEBUG] x"
     IN /\ capture => Len(hookConsoleOutput) + Len(hookErrorOutput) < MaxText
        /\ hookLogsPrepended' = (hookLogsPrepended \/ prepend)
        /\ stdoutBlocks' = IF prepend /\ allureStdoutWrapper # Null
                           THEN Bump(stdoutBlocks) ELSE stdoutBlocks
        /\ hookConsoleOutput' = IF prepend THEN <<>> ELSE text
        /\ forwarded' =
             (IF prepend /\ allureStdoutWrapper # Null
              THEN << Fwd("stdout", "header", <<>>), Fwd("stdout", "text", text),
                      Fwd("stdout", "footer", <<>>) >>
              ELSE <<>>)
             \o (IF allureStdoutWrapper # Null
                 THEN << Fwd("stdout", "chunk", <<chunk>>) >> ELSE <<>>)
  /\ emitted' = <<>>
  /\ last' = [op |-> "stdout.write", chunk |-> chunk]
  /\ UNCHANGED << hasRealTestStarted, inBeforeAll, inAfterAll, hookSuiteTitle,
                  activeSuites, activeHooks, activeTests,
                  bufferedEvents, globalSetupEvents, hookErrorOutput,
                  allureStdoutWrapper, allureStderrWrapper, stdoutWrite, stderrWrite,
                  isFlushing, exitHandlerRan, lastGlobalError,
                  globalFixtureReplayed, now, nextId, microtasks,
                  resultFiles, attachmentFiles, fixtureReplays, syntheticResults >>

\* process.stderr.write(chunk), which is the reporter's wrapper
StderrWrite(chunk) ==
  /\ Running
  /\ Delivered
  /\ stderrWrite = ReporterStderr
  /\ LET capture == Capturing
     IN /\ capture => Len(hookConsoleOutput) + Len(hookErrorOutput) < MaxText
        /\ hookErrorOutput' = IF capture THEN Append(hookErrorOutput, chunk) ELSE hookErrorOutput
  /\ forwarded' = IF allureStderrWrapper # Null
                  THEN << Fwd("stderr", "chunk", <<chunk>>) >> ELSE <<>>
  /\ emitted' = <<>>
  /\ last' = [op |-> "stderr.write", chunk |-> chunk]
  /\ UNCHANGED << hasRealTestStarted, inBeforeAll, inAfterAll, hookSuiteTitle,
                  activeSuites, activeHooks, activeTests,
                  bufferedEvents, globalSetupEvents, hookConsoleOutput,
                  allureStdoutWrapper, allureStderrWrapper, stdoutWrite, stderrWrite,
                  hookLogsPrepended, isFlushing, exitHandlerRan, lastGlobalError,
                  globalFixtureReplayed, now, nextId, microtasks,
                  resultFiles, attachmentFiles, fixtureReplays, syntheticResults, stdoutBlocks >>

\* process.on('uncaughtExceptionMonitor')
UncaughtException(err) ==
  /\ Running
  /\ Delivered
  /\ lastGlobalError' = getMessageAndTraceFromErrorLocal(err)
  /\ emitted' = <<>>
  /\ forwarded' = <<>>
  /\ last' = [op |-> "uncaughtExceptionMonitor"]
  /\ UNCHANGED << hasRealTestStarted, inBeforeAll, inAfterAll, hookSuiteTitle,
                  activeSuites, activeHooks, activeTests,
                  bufferedEvents, globalSetupEvents, hookConsoleOutput, hookErrorOutput,
                  allureStdoutWrapper, allureStderrWrapper, stdoutWrite, stderrWrite,
                  hookLogsPrepended, isFlushing, exitHandlerRan,
                  globalFixtureReplayed, now, nextId, microtasks,
                  resultFiles, attachmentFiles, fixtureReplays, syntheticResults, stdoutBlocks >>

\* ------------------------------------------------------- buffer clearing
clearHookBufferMutant(buffer) == buffer

clearHookBuffer(buffer) == <<>>

clearGlobalSetupBufferMutant(buffer) == buffer

clearGlobalSetupBuffer(buffer) == <<>>

\* ---------------------------------------------------------- fixture replay
HookStartMsg(ts) ==
  Msg("allure:hook:start", 0,
      [NoData EXCEPT !.name = <<"before all hook: mochaGlobalSetup">>, !.start = ts.start])

HookEndMsg(ts) ==
  Msg("allure:hook:end", 0,
      [NoData EXCEPT !.status = "passed", !.stop = ts.stop, !.duration = ts.stop - ts.start])

\* replayBufferedGlobalFixture up to its await: the buffers afterwards, what was
\* emitted, and the continuation left in the microtask queue.
ReplayBegin(bufs, ctx) ==
  IF Len(bufs.g) = 0
  THEN [bufs |-> bufs, emitted |-> <<>>, tasks |-> <<>>]
  ELSE LET ts == getBufferedMinMaxTimes(bufs.g, ctx.t)
           b1 == emitRuntimeMessage(bufs, << HookStartMsg(ts) >>, ctx, isFlushing)
           out == << HookStartMsg(ts) >> \o flushBufferedEvents(b1.g)
       IN [bufs |-> AfterFlush(b1, b1.g, ctx),
           emitted |-> out,
           tasks |-> << [kind |-> "replayBufferedGlobalFixture", ts |-> ts, trace |-> out] >>]

\* the replay counters after a fixture replay has re-emitted msgs
Replayed(counts, msgs) ==
  [i \in DOMAIN counts |->
     IF \E k \in 1..Len(msgs) : msgs[k].id = i /\ msgs[k].type \in ExtTypes
     THEN Bump(counts[i]) ELSE counts[i]]

\* replayBufferedGlobalFixture after its await
ReplayResume ==
  /\ Running
  /\ Delivered
  /\ microtasks # <<>>
  /\ Head(microtasks).kind = "replayBufferedGlobalFixture"
  /\ LET task == Head(microtasks)
         ctx == Ctx(activeSuites, activeHooks, activeTests, hasRealTestStarted,
                    inBeforeAll, inAfterAll, now)
         b == emitRuntimeMessage(Bufs(globalSetupEvents, bufferedEvents),
                                 << HookEndMsg(task.ts) >>, ctx, isFlushing)
     IN /\ globalSetupEvents' = clearGlobalSetupBuffer(b.g)
        /\ bufferedEvents' = b.h
        /\ emitted' = task.trace \o << HookEndMsg(task.ts) >>
  /\ globalFixtureReplayed' = TRUE
  /\ microtasks' = Tail(microtasks)
  /\ forwarded' = <<>>
  /\ last' = [op |-> "replayBufferedGlobalFixture.resume"]
  /\ UNCHANGED << hasRealTestStarted, inBeforeAll, inAfterAll, hookSuiteTitle,
                  activeSuites, activeHooks, activeTests,
                  hookConsoleOutput, hookErrorOutput,
                  allureStdoutWrapper, allureStderrWrapper, stdoutWrite, stderrWrite,
                  hookLogsPrepended, isFlushing, exitHandlerRan, lastGlobalError,
                  now, nextId, resultFiles, attachmentFiles,
                  fixtureReplays, syntheticResults, stdoutBlocks >>

\* ------------------------------------------------------------------ suites
onSuiteStart(suite) ==
  /\ Running
  /\ Delivered
  /\ suite \notin activeSuites
  /\ LET suites == activeSuites \cup {suite}
         ctx == Ctx(suites, activeHooks, activeTests, hasRealTestStarted,
                    inBeforeAll, inAfterAll, now)
         replay == ~globalFixtureReplayed /\ ~hasRealTestStarted /\ Len(globalSetupEvents) > 0
         r == IF replay THEN ReplayBegin(Bufs(globalSetupEvents, bufferedEvents), ctx)
              ELSE [bufs |-> Bufs(globalSetupEvents, bufferedEvents),
                    emitted |-> <<>>, tasks |-> <<>>]
     IN /\ Len(microtasks) + Len(r.tasks) <= MaxPending
        /\ activeSuites' = suites
        /\ globalSetupEvents' = r.bufs.g
        /\ bufferedEvents' = r.bufs.h
        /\ emitted' = r.emitted
        /\ microtasks' = microtasks \o r.tasks
        /\ fixtureReplays' = Replayed(fixtureReplays, r.emitted)
        /\ isFlushing' = IF r.tasks # <<>> THEN FALSE ELSE isFlushing
        /\ last' = [op |-> "onSuiteStart", replayed |-> r.tasks # <<>>]
  /\ forwarded' = <<>>
  /\ UNCHANGED << hasRealTestStarted, inBeforeAll, inAfterAll, hookSuiteTitle,
                  activeHooks, activeTests, hookConsoleOutput, hookErrorOutput,
                  allureStdoutWrapper, allureStderrWrapper, stdoutWrite, stderrWrite,
                  hookLogsPrepended, exitHandlerRan, lastGlobalError,
                  globalFixtureReplayed, now, nextId, resultFiles, attachmentFiles,
                  syntheticResults, stdoutBlocks >>

onSuiteEnd(suite) ==
  /\ Running
  /\ Delivered
  /\ suite \in activeSuites
  /\ activeSuites' = activeSuites \ {suite}
  /\ emitted' = <<>>
  /\ forwarded' = <<>>
  /\ last' = [op |-> "onSuiteEnd"]
  /\ UNCHANGED << hasRealTestStarted, inBeforeAll, inAfterAll, hookSuiteTitle,
                  activeHooks, activeTests, bufferedEvents, globalSetupEvents,
                  hookConsoleOutput, hookErrorOutput,
                  allureStdoutWrapper, allureStderrWrapper, stdoutWrite, stderrWrite,
                  hookLogsPrepended, isFlushing, exitHandlerRan, lastGlobalError,
                  globalFixtureReplayed, now, nextId, microtasks,
                  resultFiles, attachmentFiles, fixtureReplays, syntheticResults, stdoutBlocks >>

\* ------------------------------------------------------------------- tests
onTestStart(test) ==
  /\ Running
  /\ Delivered
  /\ test \notin activeTests
  /\ LET tests == activeTests \cup {test}
         ctx == Ctx(activeSuites, activeHooks, tests, TRUE, inBeforeAll, inAfterAll, now)
         r == ReplayBegin(Bufs(globalSetupEvents, bufferedEvents), ctx)
     IN /\ Len(microtasks) + Len(r.tasks) <= MaxPending
        /\ activeTests' = tests
        /\ globalSetupEvents' = r.bufs.g
        /\ bufferedEvents' = r.bufs.h
        /\ emitted' = r.emitted
        /\ microtasks' = microtasks \o r.tasks
        /\ fixtureReplays' = Replayed(fixtureReplays, r.emitted)
        /\ isFlushing' = IF r.tasks # <<>> THEN FALSE ELSE isFlushing
        /\ last' = [op |-> "onTestStart", replayed |-> r.tasks # <<>>]
  /\ hasRealTestStarted' = TRUE
  /\ forwarded' =
       (IF NonBlank(hookConsoleOutput)
        THEN << Fwd("stdout", "block", hookConsoleOutput) >> ELSE <<>>)
       \o (IF NonBlank(hookErrorOutput)
           THEN << Fwd("stderr", "block", hookErrorOutput) >> ELSE <<>>)
  /\ stdoutBlocks' = IF NonBlank(hookConsoleOutput) THEN Bump(stdoutBlocks) ELSE stdoutBlocks
  /\ hookConsoleOutput' = <<>>
  /\ hookErrorOutput' = <<>>
  /\ UNCHANGED << inBeforeAll, inAfterAll, hookSuiteTitle, activeSuites, activeHooks,
                  allureStdoutWrapper, allureStderrWrapper, stdoutWrite, stderrWrite,
                  hookLogsPrepended, exitHandlerRan, lastGlobalError,
                  globalFixtureReplayed, now, nextId, resultFiles, attachmentFiles,
                  syntheticResults >>

onTestEndMutant(test) ==
  /\ Running
  /\ Delivered
  /\ test \in activeTests
  /\ activeTests' = activeTests \ {test}
  /\ hasRealTestStarted' = (activeTests' # {})
  /\ emitted' = <<>>
  /\ forwarded' = <<>>
  /\ last' = [op |-> "onTestEnd"]
  /\ UNCHANGED << inBeforeAll, inAfterAll, hookSuiteTitle,
                  activeSuites, activeHooks, bufferedEvents, globalSetupEvents,
                  hookConsoleOutput, hookErrorOutput,
                  allureStdoutWrapper, allureStderrWrapper, stdoutWrite, stderrWrite,
                  hookLogsPrepended, isFlushing, exitHandlerRan, lastGlobalError,
                  globalFixtureReplayed, now, nextId, microtasks,
                  resultFiles, attachmentFiles, fixtureReplays, syntheticResults, stdoutBlocks >>

onTestEnd(test) ==
  /\ Running
  /\ Delivered
  /\ test \in activeTests
  /\ activeTests' = activeTests \ {test}
  /\ emitted' = <<>>
  /\ forwarded' = <<>>
  /\ last' = [op |-> "onTestEnd"]
  /\ UNCHANGED << hasRealTestStarted, inBeforeAll, inAfterAll, hookSuiteTitle,
                  activeSuites, activeHooks, bufferedEvents, globalSetupEvents,
                  hookConsoleOutput, hookErrorOutput,
                  allureStdoutWrapper, allureStderrWrapper, stdoutWrite, stderrWrite,
                  hookLogsPrepended, isFlushing, exitHandlerRan, lastGlobalError,
                  globalFixtureReplayed, now, nextId, microtasks,
                  resultFiles, attachmentFiles, fixtureReplays, syntheticResults, stdoutBlocks >>

\* ------------------------------------------------------------------- hooks
onHookStart(hook) ==
  /\ Running
  /\ Delivered
  /\ hook \notin activeHooks
  /\ activeHooks' = activeHooks \cup {hook}
  /\ LET suiteTitle == SuiteTitleOf(hook)
         w == wrapStdoutAndStderr(Streams)
     IN IF hook.kind = "before all"
        THEN /\ inBeforeAll' = TRUE
             /\ hookSuiteTitle' = suiteTitle
             /\ allureStdoutWrapper' = w.savedOut
             /\ allureStderrWrapper' = w.savedErr
             /\ stdoutWrite' = w.out
             /\ stderrWrite' = w.err
             /\ UNCHANGED inAfterAll
        ELSE IF hook.kind = "after all"
        THEN /\ inAfterAll' = TRUE
             /\ hookSuiteTitle' = suiteTitle
             /\ UNCHANGED << inBeforeAll, allureStdoutWrapper, allureStderrWrapper,
                             stdoutWrite, stderrWrite >>
        ELSE UNCHANGED << inBeforeAll, inAfterAll, hookSuiteTitle, allureStdoutWrapper,
                          allureStderrWrapper, stdoutWrite, stderrWrite >>
  /\ emitted' = <<>>
  /\ forwarded' = <<>>
  /\ last' = [op |-> "onHookStart", hook |-> hook]
  /\ UNCHANGED << hasRealTestStarted, activeSuites, activeTests,
                  bufferedEvents, globalSetupEvents, hookConsoleOutput, hookErrorOutput,
                  hookLogsPrepended, isFlushing, exitHandlerRan, lastGlobalError,
                  globalFixtureReplayed, now, nextId, microtasks,
                  resultFiles, attachmentFiles, fixtureReplays, syntheticResults, stdoutBlocks >>

ExitSetupHookMutant(flag, title, kind) == flag

\* `if (isBeforeAll) this.inBeforeAll = false`, the same for after-all
ExitSetupHook(flag, title, kind) == IF title.kind = kind THEN FALSE ELSE flag

HookTypeOf(title) == IF title.kind = "before all" THEN "beforeAll" ELSE "afterAll"

\* `${hookSuiteTitle}: ${hookType} hook failure`
SyntheticName(scope, hookType) == << scope, ": ", hookType, " hook failure" >>

TestStartMsg(name, ts) ==
  Msg("allure:test:start", 0, [NoData EXCEPT !.name = name, !.start = ts.start])

LabelsMsg(title, scope) ==
  Msg("metadata", 0,
      [NoData EXCEPT !.labels =
         << [name |-> "tag",
             value |-> IF title.kind = "before all" THEN "BeforeAllFailure" ELSE "AfterAllFailure"],
            [name |-> "parentSuite", value |-> scope] >>])

ConsoleLogsMsgMutant(text) ==
  Msg("attachment_content", 0,
      [NoData EXCEPT !.name = <<"Hook Console Logs">>, !.contentType = "text/plain"])

ConsoleLogsMsg(text) ==
  Msg("attachment_content", 0,
      [NoData EXCEPT !.name = <<"Hook Console Logs">>, !.content = text,
                     !.contentType = "text/plain"])

TestEndMsg(err, ts) ==
  Msg("allure:test:end", 0,
      [NoData EXCEPT !.status = "broken",
                     !.message = getMessageAndTraceFromErrorLocal(err).message,
                     !.trace = getMessageAndTraceFromErrorLocal(err).trace,
                     !.stop = ts.stop])

\* onHookEnd up to its await (or to its return, when it does not reach the await).
\* throwAt > 0: the throwAt-th emission of flushBufferedEvents raises (a listener
\* on the channel throws), which ends the pass and rejects onHookEnd.
onHookEndAt(hook, err, throwAt) ==
  /\ Running
  /\ Delivered
  /\ hook \in activeHooks
  /\ LET hooks == activeHooks \ {hook}
         inBA == ExitSetupHook(inBeforeAll, hook, "before all")
         inAA == ExitSetupHook(inAfterAll, hook, "after all")
         hadError == err # NoError
         ctx == Ctx(activeSuites, hooks, activeTests, hasRealTestStarted, inBA, inAA, now)
         ts == getBufferedMinMaxTimes(bufferedEvents, now)
         head == << TestStartMsg(SyntheticName(hookSuiteTitle, HookTypeOf(hook)), ts),
                    LabelsMsg(hook, hookSuiteTitle) >>
         b1 == emitRuntimeMessage(Bufs(globalSetupEvents, bufferedEvents), head, ctx, isFlushing)
         out == head \o flushBufferedEvents(b1.h)
         b2 == AfterFlush(b1, b1.h, ctx)
     IN /\ activeHooks' = hooks
        /\ inBeforeAll' = inBA
        /\ inAfterAll' = inAA
        /\ IF ~hadError
           THEN /\ throwAt = 0
                /\ bufferedEvents' = IF Len(bufferedEvents) > 0
                                     THEN clearHookBuffer(bufferedEvents) ELSE bufferedEvents
                /\ emitted' = <<>>
                /\ UNCHANGED << globalSetupEvents, microtasks, isFlushing >>
           ELSE IF ~hasRealTestStarted
           THEN IF throwAt = 0
                THEN /\ Len(microtasks) < MaxPending
                     /\ globalSetupEvents' = b2.g
                     /\ bufferedEvents' = b2.h
                     /\ emitted' = out
                     /\ isFlushing' = FALSE
                     /\ microtasks' = Append(microtasks,
                          [kind |-> "onHookEnd", hook |-> hook, error |-> err, ts |-> ts,
                           trace |-> out])
                ELSE /\ throwAt \in 1..Len(b1.h)
                     /\ globalSetupEvents' = AfterFlush(b1, SubSeq(b1.h, 1, throwAt), ctx).g
                     /\ bufferedEvents' = AfterFlush(b1, SubSeq(b1.h, 1, throwAt), ctx).h
                     /\ emitted' = SubSeq(out, 1, Len(head) + throwAt - 1)
                     /\ isFlushing' = TRUE
                     /\ UNCHANGED microtasks
           ELSE /\ throwAt = 0
                /\ emitted' = <<>>
                /\ UNCHANGED << globalSetupEvents, bufferedEvents, microtasks, isFlushing >>
  /\ forwarded' = <<>>
  /\ last' = [op |-> "onHookEnd", hook |-> hook, error |-> err,
              cleared |-> Len(bufferedEvents) > 0, threw |-> throwAt > 0]
  /\ UNCHANGED << hasRealTestStarted, hookSuiteTitle, activeSuites, activeTests,
                  hookConsoleOutput, hookErrorOutput,
                  allureStdoutWrapper, allureStderrWrapper, stdoutWrite, stderrWrite,
                  hookLogsPrepended, exitHandlerRan, lastGlobalError,
                  globalFixtureReplayed, now, nextId,
                  resultFiles, attachmentFiles, fixtureReplays, syntheticResults, stdoutBlocks >>

\* onHookEnd when every listener on the channel returns
onHookEnd(hook, err) == onHookEndAt(hook, err, 0)

\* onHookEnd after its await: console attachment, test end, clearBuffers
HookEndResume ==
  /\ Running
  /\ Delivered
  /\ microtasks # <<>>
  /\ Head(microtasks).kind = "onHookEnd"
  /\ LET task == Head(microtasks)
         ctx == Ctx(activeSuites, activeHooks, activeTests, hasRealTestStarted,
                    inBeforeAll, inAfterAll, now)
         tail == (IF NonBlank(hookConsoleOutput)
                  THEN << ConsoleLogsMsg(hookConsoleOutput) >> ELSE <<>>)
                 \o << TestEndMsg(task.error, task.ts) >>
         b == emitRuntimeMessage(Bufs(globalSetupEvents, bufferedEvents), tail, ctx, isFlushing)
     IN /\ bufferedEvents' = clearHookBuffer(b.h)
        /\ globalSetupEvents' = clearGlobalSetupBuffer(b.g)
        /\ emitted' = task.trace \o tail
        /\ last' = [op |-> "onHookEnd.resume", hook |-> task.hook, error |-> task.error]
  /\ hookSuiteTitle' = ""
  /\ hookErrorOutput' = <<>>
  /\ hookConsoleOutput' = <<>>
  /\ syntheticResults' = Bump(syntheticResults)
  /\ microtasks' = Tail(microtasks)
  /\ forwarded' = <<>>
  /\ UNCHANGED << hasRealTestStarted, inBeforeAll, inAfterAll,
                  activeSuites, activeHooks, activeTests,
                  allureStdoutWrapper, allureStderrWrapper, stdoutWrite, stderrWrite,
                  hookLogsPrepended, isFlushing, exitHandlerRan, lastGlobalError,
                  globalFixtureReplayed, now, nextId, resultFiles, attachmentFiles,
                  fixtureReplays, stdoutBlocks >>

\* ------------------------------------------------------------ exit fallback
\* The step forest is kept flat: steps in creation order, each with the index of
\* its parent (0 for a root); stack holds the indexes of the open steps.
NewStep(name, t, parent, atts) ==
  [name |-> name, status |-> "passed", stage |-> "finished", start |-> t, stop |-> t,
   parent |-> parent, attachments |-> atts]

Top(stack) == IF stack = <<>> THEN 0 ELSE stack[Len(stack)]

AttachmentIndexMutant(toWrite) == 1

\* the number that ends a generated source: `attachmentsToWrite.length + 1`
AttachmentIndex(toWrite) == Len(toWrite) + 1

BuildOne(acc, ev, uuid) ==
  LET m == ev.message
      top == Top(acc.stack)
  IN IF m.type = "step_start"
     THEN [acc EXCEPT
             !.steps = Append(@, NewStep(IF m.data.name = <<>> THEN <<"Step">> ELSE m.data.name,
                                         ev.at, top, <<>>)),
             !.stack = Append(@, Len(acc.steps) + 1)]
     ELSE IF m.type = "step_stop"
     THEN IF Len(acc.stack) > 0 /\ m.data.stop # 0
          THEN [acc EXCEPT !.steps[top].stop = m.data.stop,
                           !.stack = SubSeq(@, 1, Len(@) - 1)]
          ELSE acc
     ELSE IF m.type = "attachment_content"
     THEN LET type == IF m.data.contentType = "" THEN "application/octet-stream"
                      ELSE m.data.contentType
              source == [uuid |-> uuid,
                         name |-> IF m.data.name = <<>> THEN <<"attachment">> ELSE m.data.name,
                         index |-> AttachmentIndex(acc.toWrite)]
              att == [name |-> IF m.data.name = <<>> THEN <<"Attachment">> ELSE m.data.name,
                      source |-> source, ext |-> guessExt(type), type |-> type]
          IN [acc EXCEPT
                !.toWrite = Append(@, [source |-> source, type |-> type]),
                !.steps = IF Len(acc.stack) > 0
                          THEN [@ EXCEPT ![top].attachments = Append(@, att)]
                          ELSE Append(@, NewStep(<<"Attachment">>, ev.at, 0, <<att>>))]
     ELSE acc

RECURSIVE BuildSteps(_, _, _)
BuildSteps(events, acc, uuid) ==
  IF events = <<>> THEN acc
  ELSE BuildSteps(Tail(events), BuildOne(acc, Head(events), uuid), uuid)

ConsoleSource(uuid) == [uuid |-> uuid, name |-> <<"console-output">>, index |-> 0]

ExitAlreadyRanMutant == FALSE

\* the first `if` of the handler
ExitAlreadyRan == exitHandlerRan

\* the events the fallback record is built from
PendingEvents ==
  IF Len(globalSetupEvents) > 0 THEN globalSetupEvents ELSE bufferedEvents

\* nothing to record: the handler returns before the try block
NothingPending ==
  Len(PendingEvents) = 0 /\ ~NonBlank(hookConsoleOutput)

StatusDetails ==
  IF lastGlobalError # NoGlobalError THEN lastGlobalError
  ELSE LET d == deriveStatusDetailsFromConsole(
                  IF Len(hookErrorOutput) > 0 THEN hookErrorOutput ELSE hookConsoleOutput)
       IN IF d # NoDetails THEN d
          ELSE [message |-> "mochaGlobalSetup/Teardown failed before tests could run",
                trace |-> ""]

\* process.on('exit').  failAt names the file-system operation that throws:
\* 1 is mkdirSync, 2..n+1 the attachment writes, n+2 the result write; 0 is none.
Exit(failAt) ==
  LET uuid == Len(resultFiles) + 1
      ts == getBufferedMinMaxTimes(PendingEvents, now)
      built == BuildSteps(PendingEvents, [steps |-> <<>>, stack |-> <<>>, toWrite |-> <<>>], uuid)
      logs == [stdout |-> IF NonBlank(hookConsoleOutput) THEN hookConsoleOutput ELSE <<>>,
               stderr |-> IF NonBlank(hookErrorOutput) THEN hookErrorOutput ELSE <<>>]
      hasLogs == NonBlank(logs.stdout) \/ NonBlank(logs.stderr)
      toWrite == built.toWrite \o
                 (IF hasLogs THEN << [source |-> ConsoleSource(uuid), type |-> "text/plain"] >>
                  ELSE <<>>)
      topAttachments ==
        IF hasLogs
        THEN << [name |-> <<"Console Output">>, source |-> ConsoleSource(uuid),
                 ext |-> ".txt", type |-> "text/plain", content |-> logs] >>
        ELSE <<>>
      result == [uuid |-> uuid, name |-> <<"Global fixture failure">>,
                 status |-> "broken", stage |-> "finished",
                 statusDetails |-> StatusDetails,
                 start |-> ts.start, stop |-> ts.stop,
                 steps |-> built.steps, attachments |-> topAttachments,
                 labels |-> << [name |-> "tag", value |-> "GlobalFixtureFailure"],
                               [name |-> "parentSuite", value |-> "(global)"] >>]
      n == Len(toWrite)
      written == IF failAt = 0 THEN n ELSE IF failAt = 1 THEN 0 ELSE failAt - 2
      skip == ExitAlreadyRan \/ hasRealTestStarted \/ NothingPending
  IN /\ Delivered
     /\ exitHandlerRan' = TRUE
     /\ IF skip
        THEN /\ failAt = 0
             /\ UNCHANGED << bufferedEvents, globalSetupEvents, hookSuiteTitle, hookErrorOutput,
                             resultFiles, attachmentFiles >>
        ELSE /\ failAt \in 0..(n + 2)
             /\ attachmentFiles' = attachmentFiles \o
                  [i \in 1..written |-> [source |-> toWrite[i].source,
                                         ext |-> guessExt(toWrite[i].type)]]
             /\ resultFiles' = IF failAt = 0 THEN Append(resultFiles, result) ELSE resultFiles
             /\ bufferedEvents' = clearHookBuffer(bufferedEvents)
             /\ globalSetupEvents' = clearGlobalSetupBuffer(globalSetupEvents)
             /\ hookSuiteTitle' = ""
             /\ hookErrorOutput' = <<>>
     /\ emitted' = <<>>
     /\ forwarded' = <<>>
     /\ last' = [op |-> "exit", first |-> ~exitHandlerRan, skipped |-> skip, failAt |-> failAt]
     /\ UNCHANGED << hasRealTestStarted, inBeforeAll, inAfterAll,
                     activeSuites, activeHooks, activeTests, hookConsoleOutput,
                     allureStdoutWrapper, allureStderrWrapper, stdoutWrite, stderrWrite,
                     hookLogsPrepended, isFlushing, lastGlobalError,
                     globalFixtureReplayed, now, nextId, microtasks,
                     fixtureReplays, syntheticResults, stdoutBlocks >>

\* ------------------------------------------------------------ specification
Times == { t \in {now, now + 1} : t <= MaxTime }

Next ==
  \/ \E ty \in RunTypes, t \in Times : RuntimeMessage(ty, t)
  \/ \E c \in {"takeScreenshot", "url"}, r \in Results, t \in Times : onAfterCommand(c, r, t)
  \/ \E c \in RunChunks : StdoutWrite(c)
  \/ \E c \in RunChunks : StderrWrite(c)
  \/ \E e \in Errors : UncaughtException(e)
  \/ \E s \in Suites : onSuiteStart(s)
  \/ \E s \in Suites : onSuiteEnd(s)
  \/ \E t \in Tests : onTestStart(t)
  \/ \E t \in Tests : onTestEnd(t)
  \/ \E h \in Hooks : onHookStart(h)
  \/ \E h \in Hooks, e \in Errors \cup {NoError} : onHookEnd(h, e)
  \/ HookEndResume
  \/ ReplayResume
  \/ \E f \in 0..(MaxEvents + 3) : Exit(f)

Spec == Init /\ [][Next]_vars

\* ------------------------------------------- the exit fallback on its own
\* mochaGlobalSetup may leave any list of runtime messages in the shared buffer,
\* each stamped with its capture time; a step_stop may come without a stop time.
HarvestKinds == ExtTypes \cup {"step_stop without stop"}

HarvestEvent(kind, id, t) ==
  BufferedEvent(IF kind = "step_stop without stop"
                THEN Msg("step_stop", id, [NoData EXCEPT !.status = "passed"])
                ELSE ExtMsg(kind, id, t),
                t)

RECURSIVE HarvestLists(_)
HarvestLists(n) ==
  IF n = 0 THEN { <<>> }
  ELSE LET shorter == HarvestLists(n - 1)
       IN shorter \cup
          { Append(l, HarvestEvent(k, n, t)) :
              l \in { x \in shorter : Len(x) = n - 1 }, k \in HarvestKinds, t \in 1..MaxStamp }

\* the reporter is constructed after mochaGlobalSetup and the process exits
\* before any lifecycle callback
FallbackInit ==
  /\ \E preBuffered \in HarvestLists(MaxList) : Constructed(preBuffered, MaxStamp)
  /\ steps = 0
  /\ RetryIdle

FallbackNext ==
  \/ \E c \in RunChunks : StdoutWrite(c)
  \/ \E f \in {0} : Exit(f)

FallbackSpec == FallbackInit /\ [][FallbackNext]_vars

\* ------------------------------------- console text and the exit fallback
\* Before any lifecycle callback the program writes any of the console chunks to
\* either stream, an uncaught exception may be monitored, and the process exits.
ConsoleNext ==
  \/ \E c \in Chunks : StdoutWrite(c)
  \/ \E c \in Chunks : StderrWrite(c)
  \/ \E e \in Errors : UncaughtException(e)
  \/ \E f \in 0..(MaxEvents + 3) : Exit(f)

ConsoleSpec == Init /\ [][ConsoleNext]_vars

\* ------------------------------------------------------------ hooks only
\* Before any test the runner runs hooks of every kind; they write to stdout and
\* emit runtime messages, and a listener on the channel may throw during a flush.
HookInit ==
  /\ Constructed(<<>>, 1)
  /\ steps = 0
  /\ RetryIdle

HookNext ==
  \/ \E h \in Hooks \cup OtherHooks : onHookStart(h)
  \/ \E h \in Hooks \cup OtherHooks, e \in Errors \cup {NoError}, k \in 0..MaxEvents :
       onHookEndAt(h, e, k)
  \/ HookEndResume
  \/ \E c \in RunChunks : StdoutWrite(c)
  \/ \E ty \in RunTypes, t \in Times : RuntimeMessage(ty, t)

HookSpec == HookInit /\ [][HookNext]_vars

\* ------------------------------------- mochaGlobalSetup and the constructor
\* mochaGlobalSetup empties the shared buffer, publishes it and emits its runtime
\* messages, each pushed to the shared buffer and then emitted on the channel; the
\* reporter is constructed before, between or after the emissions.
SetupTypes == {"step_start", "step_stop", "attachment_content"}

SetupInit ==
  /\ ReporterFields(<<>>, 1, Unwrapped)
  /\ last = [op |-> "mochaGlobalSetup"]
  /\ constructed = FALSE
  /\ sharedBuffer = <<>>
  /\ steps = 0
  /\ RetryIdle

\* emitRuntimeMessage of mochaGlobalSetup
SetupEmit(type, t) ==
  /\ nextId < MaxList
  /\ LET m == ExtMsg(type, nextId + 1, t)
         ctx == Ctx(activeSuites, activeHooks, activeTests, hasRealTestStarted,
                    inBeforeAll, inAfterAll, t)
         bufs == IF constructed
                 THEN Listener(Bufs(globalSetupEvents, bufferedEvents), m, ctx, isFlushing)
                 ELSE Bufs(globalSetupEvents, bufferedEvents)
     IN /\ sharedBuffer' = Append(sharedBuffer, BufferedEvent(m, t))
        /\ globalSetupEvents' = bufs.g
        /\ bufferedEvents' = bufs.h
        /\ last' = [op |-> "mochaGlobalSetup.emit", message |-> m]
  /\ now' = t
  /\ nextId' = nextId + 1
  /\ UNCHANGED << hasRealTestStarted, inBeforeAll, inAfterAll, hookSuiteTitle,
                  activeSuites, activeHooks, activeTests,
                  hookConsoleOutput, hookErrorOutput,
                  allureStdoutWrapper, allureStderrWrapper, stdoutWrite, stderrWrite,
                  hookLogsPrepended, isFlushing, exitHandlerRan, lastGlobalError,
                  globalFixtureReplayed, microtasks, resultFiles, attachmentFiles,
                  emitted, forwarded, fixtureReplays, syntheticResults, stdoutBlocks, steps,
                  constructed, wdioLogLevel, loggers,
                  originalLogLevel, originalLoggerLevels, currentTest, baseline >>

\* new AllureFailingHookReporter(options)
Construct ==
  /\ ~constructed
  /\ constructed' = TRUE
  /\ globalSetupEvents' = IF Len(sharedBuffer) > 0 THEN Harvest(sharedBuffer)
                          ELSE globalSetupEvents
  /\ sharedBuffer' = IF Len(sharedBuffer) > 0 THEN <<>> ELSE sharedBuffer
  /\ LET w == wrapStdoutAndStderr(Streams)
     IN /\ allureStdoutWrapper' = w.savedOut
        /\ allureStderrWrapper' = w.savedErr
        /\ stdoutWrite' = w.out
        /\ stderrWrite' = w.err
  /\ last' = [op |-> "constructor"]
  /\ UNCHANGED << hasRealTestStarted, inBeforeAll, inAfterAll, hookSuiteTitle,
                  activeSuites, activeHooks, activeTests, bufferedEvents,
                  hookConsoleOutput, hookErrorOutput,
                  hookLogsPrepended, isFlushing, exitHandlerRan, lastGlobalError,
                  globalFixtureReplayed, now, nextId, microtasks, resultFiles, attachmentFiles,
                  emitted, forwarded, fixtureReplays, syntheticResults, stdoutBlocks, steps,
                  wdioLogLevel, loggers,
                  originalLogLevel, originalLoggerLevels, currentTest, baseline >>

SetupNext ==
  \/ \E ty \in SetupTypes, t \in { u \in {now, now + 1} : u <= MaxStamp } : SetupEmit(ty, t)
  \/ Construct

SetupSpec == SetupInit /\ [][SetupNext]_vars

\* -------------------------------------------------- retries and log levels
\* WDIO has set WDIO_LOG_LEVEL from config.logLevel and the loggers that exist have
\* the level of their override or of the default; tests run one after another, each
\* attempt followed by retryLogger's afterEach, and any module may call getLogger.
RetryInit ==
  /\ Constructed(<<>>, 1)
  /\ steps = 0
  /\ wdioLogLevel \in {"info", "silent"}
  /\ loggers \in { f \in [LoggerNames -> {Absent, "info", "silent"}] :
                     /\ f["webdriver"] # Absent
                     /\ f["devtools"] \in {Absent, wdioLogLevel}
                     /\ f["lazy"] = Absent }
  /\ originalLogLevel = Undefined
  /\ originalLoggerLevels = [n \in LoggerNames |-> Absent]
  /\ currentTest = NoTest
  /\ baseline = [env |-> wdioLogLevel, loggers |-> loggers]

\* Mocha starts the first attempt of the next test
TestBegins(retries) ==
  /\ currentTest.state \in {"none", "done"}
  /\ currentTest' = [retries |-> retries, currentRetry |-> 0, state |-> "running",
                     failed |-> FALSE]
  /\ UNCHANGED << reporter, constructed, sharedBuffer, wdioLogLevel, loggers,
                  originalLogLevel, originalLoggerLevels, baseline >>

\* getLogger(name) for a logger that does not exist yet: it takes the global default
getLoggerCreates(name) ==
  /\ loggers[name] = Absent
  /\ loggers' = [loggers EXCEPT ![name] = IF wdioLogLevel = Undefined THEN "info"
                                          ELSE wdioLogLevel]
  /\ UNCHANGED << reporter, constructed, sharedBuffer, wdioLogLevel,
                  originalLogLevel, originalLoggerLevels, currentTest, baseline >>

\* process.env.WDIO_LOG_LEVEL = 'debug'; getLogger.setLogLevelsConfig({}, 'debug')
SwitchToDebug(levels) == [n \in LoggerNames |-> IF levels[n] = Absent THEN Absent ELSE "debug"]

\* `if (allLoggers[name]) allLoggers[name].setLevel(savedLevel)` for every saved name
RestoreLevels(levels, saved) ==
  [n \in LoggerNames |->
     IF saved[n] # Absent /\ levels[n] # Absent THEN saved[n] ELSE levels[n]]

\* afterEach of retryLogger, after an attempt of the current test that passed or failed
afterEach(passed) ==
  /\ currentTest.state = "running"
  /\ LET currentRetry == currentTest.currentRetry
         maxRetries == currentTest.retries
         levelToRestore == IF originalLogLevel = Undefined THEN "info" ELSE originalLogLevel
     IN IF ~passed /\ currentRetry < maxRetries
        THEN /\ originalLogLevel' =
                  IF originalLogLevel = Undefined
                  THEN (IF wdioLogLevel = Undefined THEN "info" ELSE wdioLogLevel)
                  ELSE originalLogLevel
             /\ originalLoggerLevels' =
                  IF originalLogLevel = Undefined THEN loggers ELSE originalLoggerLevels
             /\ wdioLogLevel' = "debug"
             /\ loggers' = SwitchToDebug(loggers)
             /\ baseline' = IF currentTest.failed THEN baseline
                            ELSE [env |-> wdioLogLevel, loggers |-> loggers]
             /\ currentTest' = [currentTest EXCEPT !.currentRetry = @ + 1, !.failed = TRUE]
        ELSE IF \/ passed /\ currentRetry > 0
                \/ ~passed /\ maxRetries > 0 /\ currentRetry >= maxRetries
        THEN /\ wdioLogLevel' = levelToRestore
             /\ loggers' = RestoreLevels(loggers, originalLoggerLevels)
             /\ originalLogLevel' = Undefined
             /\ originalLoggerLevels' = [n \in LoggerNames |-> Absent]
             /\ currentTest' = [currentTest EXCEPT !.state = "done"]
             /\ UNCHANGED baseline
        ELSE /\ currentTest' = [currentTest EXCEPT !.state = "done"]
             /\ UNCHANGED << wdioLogLevel, loggers, originalLogLevel, originalLoggerLevels,
                             baseline >>
  /\ UNCHANGED << reporter, constructed, sharedBuffer >>

RetryNext ==
  \/ \E r \in 0..MaxRetries : TestBegins(r)
  \/ \E n \in LoggerNames : getLoggerCreates(n)
  \/ \E passed \in BOOLEAN : afterEach(passed)

RetrySpec == RetryInit /\ [][RetryNext]_vars

\* ================================================================== claims
SetupKinds == {"before all", "after all"}

Range(seq) == { seq[i] : i \in 1..Len(seq) }

\* C1: a runtime event or a takeScreenshot command that arrives while a test is
\* open is appended to neither GlobalBuffer nor HookBuffer, whatever happened
\* before (also when a before-all/after-all hook is still open).
C1_NoCaptureWhileTestOpen ==
  [][ (activeTests # {} /\ last'.op \in {"runtimeMessage", "onAfterCommand"})
        => UNCHANGED << globalSetupEvents, bufferedEvents >> ]_vars

\* C2: once onHookEnd has completed the synthetic result of the one setup-hook
\* failure and no test has started, the exit handler has written no fallback
\* result file.
C2_AtMostOneSyntheticRecord ==
  (syntheticResults = 1 /\ ~hasRealTestStarted) => resultFiles = <<>>

\* C3: the exit fallback writes at most one result file per process; once the exit
\* handler has run, a further 'exit' notification writes nothing and changes no buffer.
C3_ExitRunsOnce ==
  [][ /\ Len(resultFiles') <= 1
      /\ (exitHandlerRan /\ last'.op = "exit")
           => UNCHANGED << resultFiles, attachmentFiles, bufferedEvents, globalSetupEvents >> ]_vars

\* C3 witness: a second 'exit' notification after the first one wrote the record
C3_SecondExit ==
  last.op = "exit" /\ ~last.first /\ Len(resultFiles) = 1

\* C4: every event held in GlobalBuffer is re-emitted in at most one fixture
\* replay, also when onSuiteStart/onTestStart arrive while a replay is suspended.
C4_ReplayedAtMostOnce ==
  \A i \in DOMAIN fixtureReplays : fixtureReplays[i] <= 1

\* C5: whenever GlobalBuffer is cleared, every event of the program it held was
\* re-emitted by the fixture replay that clears it or the exit handler wrote (or
\* tried to write) the fallback record; the failure path of onHookEnd drops none.
C5_NoSilentDrop ==
  [][ (Len(globalSetupEvents) > 0 /\ globalSetupEvents' = <<>>)
        => \/ /\ last'.op = "replayBufferedGlobalFixture.resume"
              /\ \A i \in 1..Len(globalSetupEvents) :
                   globalSetupEvents[i].message.id > 0
                     => globalSetupEvents[i].message \in Range(emitted')
           \/ last'.op = "exit"
           \/ \A i \in 1..Len(globalSetupEvents) : globalSetupEvents[i].message.id = 0 ]_vars

StepNodes(result) ==
  Cardinality({ i \in 1..Len(result.steps) : result.steps[i].name # <<"Attachment">> })

RECURSIVE StepAttachments(_)
StepAttachments(nodes) ==
  IF nodes = <<>> THEN 0
  ELSE Len(Head(nodes).attachments) + StepAttachments(Tail(nodes))

CountType(events, type) ==
  Cardinality({ i \in 1..Len(events) : events[i].message.type = type })

\* C6: when the process exits with no test ever started and GlobalBuffer non-empty
\* (and the file system works), exactly one fallback result is written and it has a
\* step for every buffered step_start and an attachment for every buffered
\* attachment event of GlobalBuffer and HookBuffer together.
C6_FallbackCoversBothBuffers ==
  [][ ( /\ last'.op = "exit" /\ last'.failAt = 0
        /\ ~exitHandlerRan /\ ~hasRealTestStarted /\ Len(globalSetupEvents) > 0 )
        => /\ Len(resultFiles') = Len(resultFiles) + 1
           /\ LET r == resultFiles'[Len(resultFiles')]
                  all == globalSetupEvents \o bufferedEvents
              IN /\ StepNodes(r) = CountType(all, "step_start")
                 /\ StepAttachments(r.steps) = CountType(all, "attachment_content") ]_vars

\* C7: on the first exit (with a working file system) a fallback record is written
\* if and only if no test ever started and GlobalBuffer or HookBuffer is non-empty
\* or console text was captured on stdout or on stderr.
C7_FallbackIff ==
  [][ (last'.op = "exit" /\ last'.failAt = 0 /\ ~exitHandlerRan)
        => ( Len(resultFiles') > Len(resultFiles)
             <=> /\ ~hasRealTestStarted
                 /\ \/ Len(globalSetupEvents) > 0
                    \/ Len(bufferedEvents) > 0
                    \/ NonBlank(hookConsoleOutput)
                    \/ NonBlank(hookErrorOutput) ) ]_vars

\* C8: when a before-all/after-all hook ends with an error and no test has
\* started, onHookEnd emits the test-start marker, the labels, every HookBuffer
\* event once in capture order and nothing else before its await; after it, the
\* 'Hook Console Logs' attachment iff the captured stdout text is non-blank and the
\* test-end marker (broken, the hook's error); then HookBuffer and the captured
\* stdout text are empty.
C8_SyntheticSequence ==
  [][ /\ ( /\ last'.op = "onHookEnd" /\ last'.error # NoError
           /\ last'.hook.kind \in SetupKinds /\ ~hasRealTestStarted )
          => /\ Len(emitted') = 2 + Len(bufferedEvents)
             /\ emitted'[1].type = "allure:test:start"
             /\ emitted'[2].type = "metadata"
             /\ \A i \in 1..Len(bufferedEvents) : emitted'[i + 2] = bufferedEvents[i].message
      /\ (last'.op = "onHookEnd.resume")
          => /\ emitted' = Head(microtasks).trace
                  \o (IF NonBlank(hookConsoleOutput)
                      THEN << ConsoleLogsMsg(hookConsoleOutput) >> ELSE <<>>)
                  \o << TestEndMsg(last'.error, Head(microtasks).ts) >>
             /\ emitted'[Len(emitted')].data.status = "broken"
             /\ bufferedEvents' = <<>>
             /\ hookConsoleOutput' = <<>> ]_vars

\* C9: the synthetic result of a failing before-all/after-all hook
\* is named '<scope>: <hookType> hook failure' and labelled tag=<Kind>Failure,
\* parentSuite=<scope>, <scope> being the suite name parsed from the title of the
\* hook that failed.
C9_NameFromFailedHook ==
  ( /\ last.op = "onHookEnd" /\ last.error # NoError
    /\ last.hook.kind \in SetupKinds /\ emitted # <<>> )
    => /\ emitted[1].data.name =
            SyntheticName(SuiteTitleOf(last.hook), HookTypeOf(last.hook))
       /\ emitted[2].data.labels =
            << [name |-> "tag",
                value |-> IF last.hook.kind = "before all" THEN "BeforeAllFailure"
                          ELSE "AfterAllFailure"],
               [name |-> "parentSuite", value |-> SuiteTitleOf(last.hook)] >>

\* C10 as stated: after a before-all/after-all hook ends without error both buffers
\* are empty and the call emitted nothing.
C10_BothBuffersEmpty ==
  (last.op = "onHookEnd" /\ last.error = NoError /\ last.hook.kind \in SetupKinds)
    => (globalSetupEvents = <<>> /\ bufferedEvents = <<>> /\ emitted = <<>>)

\* C10 amended: after a before-all/after-all hook ends without error HookBuffer is
\* empty, GlobalBuffer is what it was before the call, and the call emitted no
\* message (no synthetic marker, no buffered event).
C10_HookBufferDiscarded ==
  [][ (last'.op = "onHookEnd" /\ last'.error = NoError /\ last'.hook.kind \in SetupKinds)
        => /\ bufferedEvents' = <<>>
           /\ globalSetupEvents' = globalSetupEvents
           /\ emitted' = <<>> ]_vars

\* C10 witness: a passing setup hook discarded a non-empty HookBuffer while
\* GlobalBuffer held events
C10_PassedWithGlobalEvents ==
  /\ last.op = "onHookEnd" /\ last.error = NoError /\ last.hook.kind \in SetupKinds
  /\ last.cleared
  /\ globalSetupEvents # <<>>

\* C11: when a before-all/after-all hook ends with an error after a test has
\* started, HookBuffer is empty when onHookEnd returns and the call emits no
\* synthetic result (no message at all, no continuation left behind).
C11_LateFailureDiscards ==
  [][ ( /\ last'.op = "onHookEnd" /\ last'.error # NoError
        /\ last'.hook.kind \in SetupKinds /\ hasRealTestStarted )
        => /\ bufferedEvents' = <<>>
           /\ emitted' = <<>>
           /\ microtasks' = microtasks ]_vars

ProgramEvents(buffer) == SelectSeq(buffer, LAMBDA e : e.message.id > 0)

C14_OwnMessagesNeverBuffered ==
  /\ \A i \in 1..Len(globalSetupEvents) : globalSetupEvents[i].message.id > 0
  /\ \A i \in 1..Len(bufferedEvents) : bufferedEvents[i].message.id > 0

ReplaySuspended ==
  \E i \in 1..Len(microtasks) : microtasks[i].kind = "replayBufferedGlobalFixture"

\* C16: when the first test starts with events in GlobalBuffer, onTestStart emits
\* the hook-start marker and exactly the buffered events in order; the hook-end
\* marker (status passed) follows before any runtime event of the open test
\* arrives, so no such event arrives while the replay is suspended; and
\* GlobalBuffer is empty once the replay has finished.
C16_ReplayBeforeTestEvents ==
  [][ /\ ( last'.op = "onTestStart" /\ last'.replayed )
          => /\ emitted'[1].type = "allure:hook:start"
             /\ SubSeq(emitted', 2, Len(emitted')) = Messages(globalSetupEvents)
      /\ ( last'.op = "runtimeMessage" /\ activeTests # {} ) => ~ReplaySuspended
      /\ ( last'.op = "replayBufferedGlobalFixture.resume" )
          => /\ emitted'[Len(emitted')].type = "allure:hook:end"
             /\ emitted'[Len(emitted')].data.status = "passed"
             /\ globalSetupEvents' = <<>> ]_vars

\* ---- the step forest of the fallback record
\* the shape of a forest: per step, in creation order, its parent (0 for a root)
\* and the number of its attachments
Shape(nodes) ==
  [i \in 1..Len(nodes) |->
     [parent |-> nodes[i].parent, attachments |-> Len(nodes[i].attachments)]]

\* the explicit-stack rule: step_start pushes a child of the top (a root on an
\* empty stack), every step_stop pops the top, an attachment goes to the top or
\* becomes a root-level step of its own
StackRuleOne(acc, ev) ==
  LET type == ev.message.type
      top == IF acc.stack = <<>> THEN 0 ELSE acc.stack[Len(acc.stack)]
  IN IF type = "step_start"
     THEN [nodes |-> Append(acc.nodes, [parent |-> top, attachments |-> 0]),
           stack |-> Append(acc.stack, Len(acc.nodes) + 1)]
     ELSE IF type = "step_stop"
     THEN [acc EXCEPT !.stack = IF @ = <<>> THEN @ ELSE SubSeq(@, 1, Len(@) - 1)]
     ELSE IF type = "attachment_content"
     THEN IF acc.stack # <<>>
          THEN [acc EXCEPT !.nodes[top].attachments = @ + 1]
          ELSE [acc EXCEPT !.nodes = Append(@, [parent |-> 0, attachments |-> 1])]
     ELSE acc

RECURSIVE StackRule(_, _)
StackRule(events, acc) ==
  IF events = <<>> THEN acc
  ELSE StackRule(Tail(events), StackRuleOne(acc, Head(events)))

\* the last exit wrote a fallback record
RecordWritten(l) == l.op = "exit" /\ ~l.skipped /\ l.failAt = 0

\* C17: the step forest of the fallback record is the one the explicit-stack rule
\* defines for the buffered list: same steps in the same order, each under the
\* innermost step open at its start, every step_stop (with or without a stop
\* time) closing the innermost open step, attachments on the innermost open step
\* or as root-level attachment steps.
C17_ForestByStackRule ==
  [][ RecordWritten(last')
        => Shape(resultFiles'[Len(resultFiles')].steps)
             = StackRule(PendingEvents, [nodes |-> <<>>, stack |-> <<>>]).nodes ]_vars

\* the step_start events (by their ordinal among the step_starts) that the
\* explicit-stack rule leaves open at the end of the list
RECURSIVE OpenStarts(_, _, _)
OpenStarts(events, count, stack) ==
  IF events = <<>> THEN { stack[i] : i \in 1..Len(stack) }
  ELSE LET type == Head(events).message.type
       IN IF type = "step_start"
          THEN OpenStarts(Tail(events), count + 1, Append(stack, count + 1))
          ELSE IF type = "step_stop" /\ stack # <<>>
          THEN OpenStarts(Tail(events), count, SubSeq(stack, 1, Len(stack) - 1))
          ELSE OpenStarts(Tail(events), count, stack)

\* the steps of a record that come from step_start events, in creation order
StartedSteps(nodes) == SelectSeq(nodes, LAMBDA n : n.name # <<"Attachment">>)

\* the largest capture time of a list
LastStamp(events) ==
  CHOOSE t \in { events[i].at : i \in 1..Len(events) } :
    \A i \in 1..Len(events) : events[i].at <= t

\* C18: in the fallback record every step whose step_start has no matching
\* step_stop in the buffered list has stop = the largest timestamp of the list.
C18_OpenStepsClosedAtLast ==
  [][ RecordWritten(last')
        => \A k \in OpenStarts(PendingEvents, 0, <<>>) :
             StartedSteps(resultFiles'[Len(resultFiles')].steps)[k].stop
               = LastStamp(PendingEvents) ]_vars

\* C19: getBufferedMinMaxTimes, as the fallback record shows it: for a non-empty
\* list start is the smallest and stop the largest capture time, so start <= stop;
\* for the empty list both are the time of the call.
C19_MinMaxTimes ==
  [][ RecordWritten(last')
        => LET r == resultFiles'[Len(resultFiles')]
               stamps == { PendingEvents[i].at : i \in 1..Len(PendingEvents) }
           IN IF PendingEvents = <<>>
              THEN r.start = now /\ r.stop = now
              ELSE /\ r.start <= r.stop
                   /\ r.start \in stamps /\ r.stop \in stamps
                   /\ \A t \in stamps : r.start <= t /\ t <= r.stop ]_vars

\* C19 witness: a record over a list whose first entry is the latest and whose
\* last entry is the earliest
C19_UnorderedStamps ==
  /\ RecordWritten(last)
  /\ Len(resultFiles[1].steps) = 2
  /\ resultFiles[1].steps[1].start = resultFiles[1].stop
  /\ resultFiles[1].steps[2].start = resultFiles[1].start
  /\ resultFiles[1].start < resultFiles[1].stop

\* C20: after the constructor and any number of before-all hook starts, each
\* stream's write function is the reporter's wrapper, installed once, and the
\* stored downstream writer is the writer that was installed before the first
\* call, never the reporter's own wrapper.
C20_WrappedOnce ==
  /\ stdoutWrite = ReporterStdout
  /\ stderrWrite = ReporterStderr
  /\ allureStdoutWrapper = "previous stdout writer"
  /\ allureStderrWrapper = "previous stderr writer"
  /\ allureStdoutWrapper # ReporterStdout
  /\ allureStderrWrapper # ReporterStderr

\* C20 witness: wrapStdoutAndStderr has been called again by two before-all hook
\* starts after the constructor
C20_WrappedAgain ==
  /\ last.op = "onHookStart" /\ last.hook.kind = "before all"
  /\ Cardinality({ h \in activeHooks : h.kind = "before all" }) = 2
  /\ stdoutWrite = ReporterStdout

C22_OneBlockPerProcess == stdoutBlocks <= 1

\* C23: when the synthetic result of a failing setup hook is completed, its
\* console attachment holds the captured stdout and the captured stderr text; and
\* captured stderr text is cleared only by a step that emits it (the attachment,
\* the bracketed block of a test start) or by the exit handler.
C23_StderrRecoverable ==
  [][ /\ ( last'.op = "onHookEnd.resume"
           /\ (NonBlank(hookConsoleOutput) \/ NonBlank(hookErrorOutput)) )
          => \E k \in 1..Len(emitted') :
               /\ emitted'[k].data.name = <<"Hook Console Logs">>
               /\ Len(emitted'[k].data.content) >= Len(hookConsoleOutput) + Len(hookErrorOutput)
               /\ Range(hookConsoleOutput) \cup Range(hookErrorOutput)
                    \subseteq Range(emitted'[k].data.content)
      /\ ( NonBlank(hookErrorOutput) /\ hookErrorOutput' = <<>> )
          => \/ last'.op = "exit"
             \/ \E k \in 1..Len(forwarded') :
                  forwarded'[k].kind = "block" /\ forwarded'[k].text = hookErrorOutput
             \/ \E k \in 1..Len(emitted') :
                  /\ emitted'[k].data.name = <<"Hook Console Logs">>
                  /\ Range(hookErrorOutput) \subseteq Range(emitted'[k].data.content) ]_vars

\* ---- screenshot bridge
\* C24: onAfterCommand appends exactly one attachment event (name Screenshot, the
\* base64 text of the result, image/png), to GlobalBuffer if nothing is open and
\* no test has started and otherwise to HookBuffer, when and only when the command
\* is takeScreenshot, the result is a non-empty string, bare or wrapped as
\* {value}, and the idle-window or setup-hook predicate is true; in every other
\* case both buffers are unchanged.
C24_ScreenshotBridge ==
  [][ ( last'.op = "onAfterCommand" )
        => LET r == last'.result
               idle == /\ activeSuites = {} /\ activeHooks = {} /\ activeTests = {}
                       /\ ~hasRealTestStarted
               acts == /\ last'.command = "takeScreenshot"
                       /\ r.shape \in {"string", "wrapped"} /\ r.value # ""
                       /\ (idle \/ inBeforeAll \/ inAfterAll)
               ev == [at |-> now',
                      message |-> [type |-> "attachment_content", id |-> nextId + 1,
                                   data |-> [NoData EXCEPT !.name = <<"Screenshot">>,
                                                           !.content = << r.value >>,
                                                           !.contentType = "image/png"]]]
           IN IF acts /\ idle
              THEN globalSetupEvents' = Append(globalSetupEvents, ev)
                   /\ bufferedEvents' = bufferedEvents
              ELSE IF acts
              THEN bufferedEvents' = Append(bufferedEvents, ev)
                   /\ globalSetupEvents' = globalSetupEvents
              ELSE UNCHANGED << globalSetupEvents, bufferedEvents >> ]_vars

\* C24 witness: a wrapped screenshot result was appended to HookBuffer
C24_WrappedIntoHookBuffer ==
  /\ last.op = "onAfterCommand" /\ last.command = "takeScreenshot"
  /\ last.result.shape = "wrapped"
  /\ Len(bufferedEvents) > 0
  /\ bufferedEvents[Len(bufferedEvents)].message.data.name = <<"Screenshot">>

\* C25: a takeScreenshot notification whose result is neither a string nor an
\* object with a string value is dropped: the callback completes and leaves both
\* buffers, the lifecycle flags and sets, and the console accumulators unchanged.
C25_MalformedResultDropped ==
  [][ ( /\ last'.op = "onAfterCommand" /\ last'.command = "takeScreenshot"
        /\ last'.result.shape \notin {"string", "wrapped"} )
        => /\ UNCHANGED << globalSetupEvents, bufferedEvents,
                           hasRealTestStarted, inBeforeAll, inAfterAll, hookSuiteTitle,
                           activeSuites, activeHooks, activeTests,
                           hookLogsPrepended, isFlushing, exitHandlerRan,
                           globalFixtureReplayed, hookConsoleOutput, hookErrorOutput >>
           /\ emitted' = <<>> ]_vars

\* C25 witness: an object without a string value arrived inside a before-all hook
C25_MalformedInsideHook ==
  /\ last.op = "onAfterCommand" /\ last.command = "takeScreenshot"
  /\ last.result.shape = "object"
  /\ inBeforeAll

\* ---- lifecycle flags
\* C26: hasRealTestStarted never goes back from true to false.
C26_StartedIsMonotonic ==
  [][ hasRealTestStarted => hasRealTestStarted' ]_vars

\* C26 witness: the only test has ended and the flag is still set
C26_StartedAfterTestEnd ==
  /\ last.op = "onTestEnd" /\ activeTests = {}
  /\ hasRealTestStarted

OpenHooks(kind) == { h \in activeHooks : h.kind = kind }

\* C27 as stated: whenever inBeforeAll or inAfterAll is true, exactly one
\* before-all/after-all hook has started and not yet ended.
C27_ExactlyOneOpen ==
  (inBeforeAll \/ inAfterAll)
    => Cardinality(OpenHooks("before all") \cup OpenHooks("after all")) = 1

\* C27 amended: whenever inBeforeAll (inAfterAll) is true, at least one
\* before-all (after-all) hook has started and not yet ended.
C27_SomeHookOpen ==
  /\ inBeforeAll => OpenHooks("before all") # {}
  /\ inAfterAll => OpenHooks("after all") # {}

\* C27 witness: two before-all hooks are open and a hook of the other kind has ended
C27_TwoOpen ==
  /\ inBeforeAll
  /\ Cardinality(OpenHooks("before all")) = 2
  /\ last.op = "onHookEnd"

\* C28: while a before-all (after-all) hook is open, inBeforeAll (inAfterAll) is
\* true, also after another hook of the same kind has started and ended; so a
\* runtime event that arrives while such a hook is open and no test is open is
\* appended to HookBuffer.
C28_FlagHeldUntilOwnEnd ==
  [][ /\ OpenHooks("before all")' # {} => inBeforeAll'
      /\ OpenHooks("after all")' # {} => inAfterAll'
      /\ ( last'.op = "runtimeMessage" /\ activeHooks # {} /\ activeTests = {} )
          => bufferedEvents' = Append(bufferedEvents, [message |-> last'.message, at |-> now']) ]_vars

\* ---- exit fallback: status details and persistence failures
HasErrorHeader(text) == \E i \in 1..Len(text) : text[i] = "Error: boom"

\* C29: the fallback record is broken and its statusDetails are the error of the
\* uncaught-exception monitor if there is one; otherwise the error header of the
\* captured console text whenever the captured stderr or the captured stdout holds
\* one; otherwise the generic message.
C29_MostSpecificError ==
  [][ RecordWritten(last')
        => LET r == resultFiles'[Len(resultFiles')]
           IN /\ r.status = "broken"
              /\ r.statusDetails =
                   IF lastGlobalError # NoGlobalError THEN lastGlobalError
                   ELSE IF HasErrorHeader(hookErrorOutput) \/ HasErrorHeader(hookConsoleOutput)
                   THEN [message |-> "Error: boom", trace |-> "Error: boom"]
                   ELSE [message |-> "mochaGlobalSetup/Teardown failed before tests could run",
                         trace |-> ""] ]_vars

\* C30: when a persistence operation of the exit fallback fails, the handler
\* completes, no result file is written, both buffers are empty afterwards and the
\* handler is marked as run; a later exit notification attempts nothing.
C30_PersistenceFailureSwallowed ==
  [][ /\ ( last'.op = "exit" /\ last'.failAt > 0 )
          => /\ resultFiles' = resultFiles
             /\ globalSetupEvents' = <<>>
             /\ bufferedEvents' = <<>>
             /\ exitHandlerRan'
      /\ ( last'.op = "exit" /\ exitHandlerRan )
          => /\ last'.skipped
             /\ UNCHANGED << resultFiles, attachmentFiles >> ]_vars

\* C30 witness: the write of the result file failed after an attachment of a
\* buffered event had been written, and a second exit notification followed
C30_FailedThenExitAgain ==
  /\ last.op = "exit" /\ ~last.first
  /\ resultFiles = <<>>
  /\ \E i \in 1..Len(attachmentFiles) : attachmentFiles[i].source.index > 0

IsPrefix(a, b) == Len(a) <= Len(b) /\ SubSeq(b, 1, Len(a)) = a

Lifecycle == << activeSuites, activeHooks, activeTests, inBeforeAll, inAfterAll,
               hasRealTestStarted, hookSuiteTitle >>

\* C33 as stated: a runtime event, a stream write, a driver command notification
\* and the exit handler leave the lifecycle state (open suites, hooks and tests,
\* inBeforeAll, inAfterAll, hasRealTestStarted, the hook scope name) unchanged.
C33_OnlyLifecycleCallbacksChange ==
  [][ ( last'.op \in {"runtimeMessage", "stdout.write", "stderr.write",
                      "onAfterCommand", "exit"} )
        => Lifecycle' = Lifecycle ]_vars

\* C34: the idle-window predicate and the setup-hook predicate are never both true.
C34_IdleExcludesSetupHook ==
  LET ctx == Ctx(activeSuites, activeHooks, activeTests, hasRealTestStarted,
                 inBeforeAll, inAfterAll, now)
  IN ~(ctx.idle /\ ctx.inHook)

\* C34 witness: a setup flag is set and only the open hook keeps the window closed
C34_OnlyHookOpen ==
  /\ inBeforeAll \/ inAfterAll
  /\ activeSuites = {} /\ activeTests = {} /\ ~hasRealTestStarted
  /\ activeHooks # {}

\* C35: once hasRealTestStarted is true, GlobalBuffer never grows again, whether
\* by the classifier or by the screenshot bridge, also after everything has closed.
C35_NoGrowthAfterStart ==
  [][ hasRealTestStarted => Len(globalSetupEvents') <= Len(globalSetupEvents) ]_vars

\* C35 witness: a runtime event arrived after a test had started and every suite,
\* hook and test had closed again
C35_EventAfterAllClosed ==
  /\ last.op = "runtimeMessage"
  /\ hasRealTestStarted
  /\ activeSuites = {} /\ activeHooks = {} /\ activeTests = {}

\* C36 as stated: a synthetic result is produced only for before-all and after-all
\* hooks; a hook of another kind that ends with an error before any test emits no
\* synthetic markers, leaves no continuation, and treats the buffers as a passing
\* hook end does.
C36_OnlySetupHooksSynthesised ==
  [][ /\ ( last'.op = "onHookEnd.resume" ) => last'.hook.kind \in SetupKinds
      /\ ( last'.op = "onHookEnd" /\ last'.hook.kind \notin SetupKinds
             /\ last'.error # NoError /\ ~hasRealTestStarted )
           => /\ emitted' = <<>>
              /\ microtasks' = microtasks
              /\ globalSetupEvents' = globalSetupEvents
              /\ bufferedEvents' = <<>> ]_vars

\* C37 as stated: isFlushing is false in every state in which no flush is executing
\* (a flush runs inside one callback, so in every state between callbacks).
C37_FlagClearOutsideFlush == isFlushing = FALSE

\* the attachments of the steps of a result record
StepAttachmentSeqs(r) == { r.steps[i].attachments : i \in 1..Len(r.steps) }

StepAttachmentSet(r) ==
  UNION { Range(a) : a \in StepAttachmentSeqs(r) }

AttachmentEvents(events) ==
  SelectSeq(events, LAMBDA ev : ev.message.type = "attachment_content")

\* C38: the result file is written only after every attachment file has been
\* written; every attachment the record refers to names a file written by the same
\* handler run; the sources of one record are pairwise distinct, the k-th buffered
\* attachment carrying index k.
C38_ResultAfterAttachments ==
  [][ ( last'.op = "exit" )
        => /\ last'.failAt # 0 => resultFiles' = resultFiles
           /\ resultFiles' # resultFiles
                => LET r == resultFiles'[Len(resultFiles')]
                       refs == StepAttachmentSet(r) \cup Range(r.attachments)
                       new == { attachmentFiles'[i] :
                                  i \in (Len(attachmentFiles) + 1)..Len(attachmentFiles') }
                       evs == AttachmentEvents(PendingEvents)
                   IN /\ \A a \in refs : [source |-> a.source, ext |-> a.ext] \in new
                      /\ \A a, b \in refs : a.source = b.source => a = b
                      /\ StepAttachments(r.steps) = Len(evs)
                      /\ \A k \in 1..Len(evs) :
                           \E a \in StepAttachmentSet(r) :
                             /\ a.source.index = k
                             /\ a.source.name = evs[k].message.data.name ]_vars

\* C38 witness: a record with two buffered attachments has been written
C38_TwoAttachmentsWritten ==
  /\ last.op = "exit" /\ ~last.skipped /\ last.failAt = 0
  /\ resultFiles # <<>>
  /\ StepAttachments(resultFiles[Len(resultFiles)].steps) = 2
  /\ Len(attachmentFiles) >= 2

\* C39: every event mochaGlobalSetup emits is present exactly once in GlobalBuffer,
\* in emission order, whether the reporter is constructed before, between or after
\* the emissions; the constructor moves the entries of the shared buffer and leaves
\* it empty.  (The k-th emitted message carries id k.)
C39_SetupEventsOnce ==
  /\ [] ( constructed
            => /\ Len(globalSetupEvents) = nextId
               /\ \A k \in 1..nextId : globalSetupEvents[k].message.id = k )
  /\ [][ /\ ( last'.op = "mochaGlobalSetup.emit" /\ constructed )
             => globalSetupEvents' =
                  Append(globalSetupEvents, [message |-> last'.message, at |-> now'])
         /\ ( last'.op = "mochaGlobalSetup.emit" /\ ~constructed )
             => sharedBuffer' =
                  Append(sharedBuffer, [message |-> last'.message, at |-> now'])
         /\ ( last'.op = "constructor" )
             => /\ globalSetupEvents' = sharedBuffer
                /\ sharedBuffer' = <<>> ]_vars

\* C39 witness: the reporter was constructed between two emissions
C39_ConstructedBetween ==
  /\ constructed
  /\ last.op = "mochaGlobalSetup.emit"
  /\ Len(globalSetupEvents) >= 2
  /\ sharedBuffer # <<>>
  /\ Len(sharedBuffer) < Len(globalSetupEvents)

\* C31 as stated: after a test has passed on a retry or failed its last attempt,
\* WDIO_LOG_LEVEL and the level of every logger, the loggers created while the retry
\* ran in debug mode included, are what they were before the first failed attempt (a
\* logger created since has the level it would have been given then); the saved
\* original is the one taken at the first failed attempt.
C31_LevelsRestored ==
  /\ ( originalLogLevel # Undefined )
       => /\ originalLogLevel = baseline.env
          /\ originalLoggerLevels = baseline.loggers
  /\ ( currentTest.state = "done" /\ currentTest.failed )
       => /\ wdioLogLevel = baseline.env
          /\ \A n \in LoggerNames :
               loggers[n] # Absent
                 => loggers[n] = IF baseline.loggers[n] # Absent THEN baseline.loggers[n]
                                 ELSE baseline.env

====
